---- MODULE Spec2Model ----
(***************************************************************************)
(* Model of localstack/services/awslambda/invocation/lambda_models.py:     *)
(* the S3Code code-archive cache (prepare_for_execution, destroy_cached,   *)
(* destroy, generate_presigned_url, get_unzipped_code_location) run by     *)
(* concurrent threads against a shared file system and S3 store, and the   *)
(* Function aggregate (versions, aliases, next_version, lock) with its     *)
(* VersionAlias and AliasRoutingConfig values.                             *)
(***************************************************************************)
EXTENDS Integers, Sequences, FiniteSets, TLC

\* ------------------------------------------------------------------ bounds
NThreads == 2        \* worker threads calling into S3Code objects
MaxCalls == 3        \* calls started in one run, over all threads

Threads == 1..NThreads
\* the entries of the code archive, in archive order
Archive == <<"handler.py", "lib.py">>
ArchiveFiles == {Archive[i] : i \in 1..Len(Archive)}
Artifacts == {"a1", "a2"}      \* the S3Code objects
CacheArtifacts == {"a1"}       \* the one the cache threads of Spec contend on

VARIABLES
    \* ---- local disk and S3 store, per S3Code object
    parentDir,   \* /tmp/lambda/{s3_bucket}/{id} exists
    codeDir,     \* /tmp/lambda/{s3_bucket}/{id}/code exists
    files,       \* the entries present in the code directory
    remote,      \* the archive object exists in S3
    disk_lock,   \* S3Code._disk_lock: the set holding the owning thread, empty when free
    \* ---- per thread
    pc,          \* position of the thread in the method it runs
    op,          \* the method called last
    self,        \* the S3Code object the method runs on
    todo,        \* local work list: archive entries to write / listing to unlink
    result,      \* how the last call ended: "ok" or the exception raised
    \* ---- observations recorded for the properties
    obs,         \* per thread: what the current (or last) call did and saw
    downloads,   \* per object: download_fileobj calls started
    unzips,      \* per object: unzip calls that ran to completion
    evicted,     \* per object: some destroy_cached call has been made
    failed,      \* per object: some download or unzip has failed
    prepared,    \* per object: a prepare_for_execution returned, no eviction since
    ncalls,      \* calls started so far
    \* ---- the Function aggregate
    versions,      \* Function.versions: qualifier -> FunctionVersion
    next_version,  \* Function.next_version
    lock,          \* Function.lock: the set holding the owning thread, empty when free
    qualifier,     \* per thread: the qualifier the running operation works on
    ret,           \* per thread: the FunctionVersion the last call returned
    published,     \* the qualifiers PublishVersion handed out, in lock order
    aliases,       \* Function.aliases: alias name -> VersionAlias
    \* ---- the objects' fields and what the calls were given and gave back
    s3code,        \* per S3Code object: id, s3_bucket, s3_key, s3_object_version
    url,           \* per thread: the parameters of the URL generate_presigned_url returned
    issued,        \* the revision ids long_uid has generated
    request,       \* per thread: the arguments of the alias operation it runs, until it returns
    routed,        \* per thread: what the last ResolveAlias read and returned
    previous       \* in a sequential run: the thread of the latest call, and the
                   \* method and filesystem error of the call before it

fsVars == <<parentDir, codeDir, files>>
cacheVars == <<parentDir, codeDir, files, remote, disk_lock>>
threadVars == <<pc, op, self, todo, result>>
histVars == <<obs, downloads, unzips, evicted, failed, prepared, ncalls>>
fnVars == <<versions, next_version, lock, qualifier, ret, published>>
aliasVars == <<aliases, issued, request, routed>>
extVars == <<s3code, url, aliasVars, previous>>
vars == <<cacheVars, threadVars, histVars, fnVars, extVars>>

\* ----------------------------------------------------------------- strings
\* a string is the sequence of its characters
Slash == <<"/">>
\* tempfile.gettempdir()
gettempdir == <<"/", "t", "m", "p">>

\* faulty variant: the path leaves the id out
get_unzipped_code_location_flat(c) ==
    gettempdir \o <<"/", "l", "a", "m", "b", "d", "a", "/">> \o c.s3_bucket
        \o <<"/", "c", "o", "d", "e">>

\* S3Code.get_unzipped_code_location:
\* Path(f"{tempfile.gettempdir()}/lambda/{self.s3_bucket}/{self.id}/code")
get_unzipped_code_location(c) ==
    gettempdir \o <<"/", "l", "a", "m", "b", "d", "a", "/">> \o c.s3_bucket
        \o Slash \o c.id \o <<"/", "c", "o", "d", "e">>

\* Path.parent: the path without its last component
parent(p) ==
    LET last == CHOOSE i \in 1..Len(p) :
                    p[i] = "/" /\ \A j \in (i + 1)..Len(p) : p[j] # "/"
    IN SubSeq(p, 1, last - 1)

\* the S3Code objects of the runs that do not draw them
S3Codes ==
    [a \in Artifacts |->
        IF a = "a1"
        THEN [id |-> <<"f">>, s3_bucket |-> <<"b">>, s3_key |-> <<"f">>,
              s3_object_version |-> <<>>]
        ELSE [id |-> <<"g">>, s3_bucket |-> <<"b">>, s3_key |-> <<"g">>,
              s3_object_version |-> <<"1">>]]

\* the local code directory of object a, and the directories of all objects
Dir(a) == get_unzipped_code_location(s3code[a])
Locations == {Dir(a) : a \in Artifacts}

\* what a call has done and seen so far
NoObs ==
    [dl |-> 0, dlFailed |-> FALSE, seen |-> "none", fsErr |-> FALSE,
     delErr |-> "untried", localAfter |-> FALSE, remade |-> FALSE]

\* exceptions of botocore: ClientError is a service error response, the other is
\* a BotoCoreError (no response at all), which `except ClientError` does not catch
DownloadErrors == {"ClientError", "EndpointConnectionError"}

\* the first entry of the archive among those of S
NextEntry(S) ==
    Archive[CHOOSE i \in 1..Len(Archive) :
                /\ Archive[i] \in S
                /\ \A j \in 1..(i - 1) : Archive[j] \notin S]

\* ------------------------------------------------------------------ state
\* Function.next_version: int = 1
next_version_default == 1

\* a FunctionVersion, reduced to id.qualifier and config.code
FunctionVersion(q, a) == [qualifier |-> q, code |-> a]
NoVersion == FunctionVersion("", "")

\* a presigned URL, reduced to the parameters it was generated from
NoUrl == [Bucket |-> <<>>, Key |-> <<>>, VersionId |-> <<>>]

\* the arguments of an alias operation
NoRequest ==
    [name |-> "", function_version |-> "", secondary |-> "", weight |-> 0,
     sample |-> 0]

\* AliasRoutingConfig: version_weights maps the secondary version to its weight
AliasRoutingConfig(secondary, weight) == [version_weights |-> (secondary :> weight)]
\* routing_configuration of an alias with no secondary version
NoRouting == [version_weights |-> <<>>]

\* VersionAlias
VersionAlias(function_version, name, routing_configuration, revision_id) ==
    [function_version |-> function_version, name |-> name,
     routing_configuration |-> routing_configuration, revision_id |-> revision_id]
NoAlias == VersionAlias("", "", NoRouting, "")

\* what a ResolveAlias call resolved: the alias it read and the qualifier it chose
NoRoute == [alias |-> NoAlias, sample |-> 0, qualifier |-> ""]

\* everything but the S3Code objects' fields
InitRest ==
    /\ parentDir = [p \in Locations |-> FALSE]
    /\ codeDir = [p \in Locations |-> FALSE]
    /\ files = [p \in Locations |-> {}]
    /\ remote = [a \in Artifacts |-> TRUE]
    /\ disk_lock = [a \in Artifacts |-> {}]
    /\ pc = [t \in Threads |-> "idle"]
    /\ op = [t \in Threads |-> "none"]
    /\ self = [t \in Threads |-> CHOOSE a \in Artifacts : TRUE]
    /\ todo = [t \in Threads |-> {}]
    /\ result = [t \in Threads |-> "none"]
    /\ obs = [t \in Threads |-> NoObs]
    /\ downloads = [a \in Artifacts |-> 0]
    /\ unzips = [a \in Artifacts |-> 0]
    /\ evicted = [a \in Artifacts |-> FALSE]
    /\ failed = [a \in Artifacts |-> FALSE]
    /\ prepared = [a \in Artifacts |-> FALSE]
    /\ ncalls = 0
    /\ versions = <<>>
    /\ next_version = next_version_default
    /\ lock = {}
    /\ qualifier = [t \in Threads |-> ""]
    /\ ret = [t \in Threads |-> NoVersion]
    /\ published = <<>>
    /\ aliases = <<>>
    /\ url = [t \in Threads |-> NoUrl]
    /\ issued = {}
    /\ request = [t \in Threads |-> NoRequest]
    /\ routed = [t \in Threads |-> NoRoute]
    /\ previous = [caller |-> CHOOSE t \in Threads : TRUE, op |-> "none",
                   fsErr |-> FALSE]

Init ==
    /\ s3code = S3Codes
    /\ InitRest

\* positions inside destroy_cached (the rmtree walk included)
EvictPcs == {"d_exists", "d_scandir", "d_unlink", "d_rmdir", "d_rmdir_parent"}

\* some thread is inside destroy_cached on a
Evicting(a) == \E u \in Threads : self[u] = a /\ pc[u] \in EvictPcs

\* the threads that are inside destroy() on a see the directory written under them
MarkRemade(a) ==
    [u \in Threads |->
        IF self[u] = a /\ op[u] = "destroy" /\ pc[u] # "idle"
        THEN [obs[u] EXCEPT !.remade = TRUE] ELSE obs[u]]

\* the thread enters a method on object a at its first position
Enter(t, a, method, first) ==
    /\ pc' = [pc EXCEPT ![t] = first]
    /\ op' = [op EXCEPT ![t] = method]
    /\ self' = [self EXCEPT ![t] = a]
    /\ todo' = [todo EXCEPT ![t] = {}]
    /\ result' = [result EXCEPT ![t] = "none"]
    /\ obs' = [obs EXCEPT ![t] = NoObs]

\* a thread that runs nothing calls a method, while the run's budget lasts
Call(t, a, method, first) ==
    /\ pc[t] = "idle"
    /\ ncalls < MaxCalls
    /\ ncalls' = ncalls + 1
    /\ Enter(t, a, method, first)

\* ------------------------------------------- S3Code.prepare_for_execution
\* faulty variant: the presence check is lost: every call materializes again
TargetExists_never(a) == FALSE

\* target_path.exists()
TargetExists(a) == codeDir[Dir(a)]

\* faulty variant: the lock excludes nobody
LockFree_open(a, t) == TRUE

\* `with self._disk_lock:` can be entered by t
LockFree(a, t) == disk_lock[a] \subseteq {t}

prepare_for_execution(t, a) ==
    /\ Call(t, a, "prepare_for_execution", "p_lock")
    /\ UNCHANGED <<cacheVars, downloads, unzips, evicted, failed, prepared, fnVars, extVars>>

p_acquire(t) ==
    /\ pc[t] = "p_lock"
    /\ LockFree(self[t], t)
    /\ disk_lock' = [disk_lock EXCEPT ![self[t]] = {t}]
    /\ pc' = [pc EXCEPT ![t] = "p_exists"]
    /\ UNCHANGED <<fsVars, remote, op, self, todo, result, histVars>>
    /\ UNCHANGED <<fnVars, extVars>>

\* if target_path.exists(): return
p_exists(t) ==
    LET a == self[t] IN
    /\ pc[t] = "p_exists"
    /\ IF TargetExists(a)
       THEN /\ pc' = [pc EXCEPT ![t] = "idle"]
            /\ result' = [result EXCEPT ![t] = "ok"]
            /\ disk_lock' = [disk_lock EXCEPT ![a] = {}]
            /\ obs' = [obs EXCEPT ![t].seen = IF files[Dir(a)] = ArchiveFiles
                                              THEN "complete" ELSE "partial"]
            /\ prepared' = [prepared EXCEPT ![a] = ~Evicting(a)]
       ELSE /\ pc' = [pc EXCEPT ![t] = "p_mkdir"]
            /\ UNCHANGED <<result, disk_lock, obs, prepared>>
    /\ UNCHANGED <<fsVars, remote, op, self, todo,
                   downloads, unzips, evicted, failed, ncalls>>
    /\ UNCHANGED <<fnVars, extVars>>

\* target_path.mkdir(parents=True, exist_ok=True)
p_mkdir(t) ==
    LET a == self[t] IN
    /\ pc[t] = "p_mkdir"
    /\ parentDir' = [parentDir EXCEPT ![Dir(a)] = TRUE]
    /\ codeDir' = [codeDir EXCEPT ![Dir(a)] = TRUE]
    /\ pc' = [pc EXCEPT ![t] = "p_download"]
    /\ obs' = MarkRemade(a)
    /\ UNCHANGED <<files, remote, disk_lock, op, self, todo, result,
                   downloads, unzips, evicted, failed, prepared, ncalls>>
    /\ UNCHANGED <<fnVars, extVars>>

\* self._download_archive_to_file(file): the download succeeds
p_download_ok(t) ==
    LET a == self[t] IN
    /\ pc[t] = "p_download"
    /\ remote[a]
    /\ downloads' = [downloads EXCEPT ![a] = @ + 1]
    /\ obs' = [obs EXCEPT ![t].dl = @ + 1]
    /\ todo' = [todo EXCEPT ![t] = ArchiveFiles]
    /\ pc' = [pc EXCEPT ![t] = "p_unzip"]
    /\ UNCHANGED <<cacheVars, op, self, result, unzips, evicted, failed,
                   prepared, ncalls>>
    /\ UNCHANGED <<fnVars, extVars>>

\* faulty variant: a failed download is retried inside the call
p_download_retry(t) ==
    LET a == self[t] IN
    /\ pc[t] = "p_download"
    /\ downloads' = [downloads EXCEPT ![a] = @ + 1]
    /\ obs' = [obs EXCEPT ![t].dl = @ + 1, ![t].dlFailed = TRUE]
    /\ failed' = [failed EXCEPT ![a] = TRUE]
    /\ UNCHANGED <<cacheVars, threadVars, unzips, evicted, prepared, ncalls, fnVars, extVars>>

\* faulty variant: the exception leaves the method with the lock still held
p_download_fail_held(t) ==
    LET a == self[t] IN
    /\ pc[t] = "p_download"
    /\ \E e \in DownloadErrors :
          /\ ~remote[a] => e = "ClientError"
          /\ result' = [result EXCEPT ![t] = e]
    /\ downloads' = [downloads EXCEPT ![a] = @ + 1]
    /\ obs' = [obs EXCEPT ![t].dl = @ + 1, ![t].dlFailed = TRUE]
    /\ failed' = [failed EXCEPT ![a] = TRUE]
    /\ pc' = [pc EXCEPT ![t] = "idle"]
    /\ UNCHANGED <<cacheVars, op, self, todo, unzips, evicted, prepared, ncalls>>
    /\ UNCHANGED <<fnVars, extVars>>

\* self._download_archive_to_file(file) raises: nothing catches it, the `with`
\* blocks release the lock and the exception reaches the caller
p_download_fail(t) ==
    LET a == self[t] IN
    /\ pc[t] = "p_download"
    /\ \E e \in DownloadErrors :
          /\ ~remote[a] => e = "ClientError"
          /\ result' = [result EXCEPT ![t] = e]
    /\ downloads' = [downloads EXCEPT ![a] = @ + 1]
    /\ obs' = [obs EXCEPT ![t].dl = @ + 1, ![t].dlFailed = TRUE]
    /\ failed' = [failed EXCEPT ![a] = TRUE]
    /\ disk_lock' = [disk_lock EXCEPT ![a] = {}]
    /\ pc' = [pc EXCEPT ![t] = "idle"]
    /\ UNCHANGED <<fsVars, remote, op, self, todo, unzips, evicted,
                   prepared, ncalls>>
    /\ UNCHANGED <<fnVars, extVars>>

\* unzip(file.name, str(target_path)): the next archive entry is written (the
\* directories are made again when an eviction removed them); after the last
\* entry the method returns
p_unzip_entry(t) ==
    LET a == self[t]
        f == NextEntry(todo[t])
        content == files[Dir(a)] \cup {f}
    IN
    /\ pc[t] = "p_unzip"
    /\ parentDir' = [parentDir EXCEPT ![Dir(a)] = TRUE]
    /\ codeDir' = [codeDir EXCEPT ![Dir(a)] = TRUE]
    /\ files' = [files EXCEPT ![Dir(a)] = content]
    /\ todo' = [todo EXCEPT ![t] = @ \ {f}]
    /\ IF todo[t] = {f}
       THEN /\ pc' = [pc EXCEPT ![t] = "idle"]
            /\ result' = [result EXCEPT ![t] = "ok"]
            /\ disk_lock' = [disk_lock EXCEPT ![a] = {}]
            /\ unzips' = [unzips EXCEPT ![a] = @ + 1]
            /\ obs' = [MarkRemade(a) EXCEPT
                          ![t].seen = IF content = ArchiveFiles
                                      THEN "complete" ELSE "partial"]
            /\ prepared' = [prepared EXCEPT ![a] = ~Evicting(a)]
       ELSE /\ obs' = MarkRemade(a)
            /\ UNCHANGED <<pc, result, disk_lock, unzips, prepared>>
    /\ UNCHANGED <<remote, op, self, downloads, evicted, failed, ncalls>>
    /\ UNCHANGED <<fnVars, extVars>>

\* unzip raises (a bad archive, or the target directory was removed under it)
p_unzip_fail(t) ==
    LET a == self[t] IN
    /\ pc[t] = "p_unzip"
    /\ result' = [result EXCEPT ![t] = "UnzipError"]
    /\ failed' = [failed EXCEPT ![a] = TRUE]
    /\ disk_lock' = [disk_lock EXCEPT ![a] = {}]
    /\ pc' = [pc EXCEPT ![t] = "idle"]
    /\ UNCHANGED <<fsVars, remote, op, self, todo, obs, downloads, unzips,
                   evicted, prepared, ncalls>>
    /\ UNCHANGED <<fnVars, extVars>>

\* ---------------------------------------------------- S3Code.destroy_cached
\* faulty variant: the OSError of shutil.rmtree is not caught
EvictEnd_raise(t, oserror) ==
    /\ obs' = [obs EXCEPT ![t].fsErr = oserror]
    /\ IF op[t] = "destroy" /\ ~oserror
       THEN /\ pc' = [pc EXCEPT ![t] = "x_delete"]
            /\ UNCHANGED result
       ELSE /\ pc' = [pc EXCEPT ![t] = "idle"]
            /\ result' = [result EXCEPT ![t] = IF oserror THEN "OSError" ELSE "ok"]

\* destroy_cached is left: an OSError of shutil.rmtree is caught and logged
\* (`except OSError`), so the method returns normally either way; inside
\* destroy() the thread goes on to the remote delete
EvictEnd(t, oserror) ==
    /\ obs' = [obs EXCEPT ![t].fsErr = oserror]
    /\ IF op[t] = "destroy"
       THEN /\ pc' = [pc EXCEPT ![t] = "x_delete"]
            /\ UNCHANGED result
       ELSE /\ pc' = [pc EXCEPT ![t] = "idle"]
            /\ result' = [result EXCEPT ![t] = "ok"]

\* a call of destroy_cached or destroy enters destroy_cached
Evict(t, a, method) ==
    /\ Call(t, a, method, "d_exists")
    /\ evicted' = [evicted EXCEPT ![a] = TRUE]
    /\ prepared' = [prepared EXCEPT ![a] = FALSE]
    /\ UNCHANGED <<cacheVars, downloads, unzips, failed, fnVars, extVars>>

destroy_cached(t, a) == Evict(t, a, "destroy_cached")

\* faulty variant: the presence check is inverted, the call returns at once
d_exists_skip(t) ==
    /\ pc[t] = "d_exists"
    /\ EvictEnd(t, FALSE)
    /\ UNCHANGED <<cacheVars, op, self, todo, downloads, unzips, evicted,
                   failed, prepared, ncalls>>
    /\ UNCHANGED <<fnVars, extVars>>

\* if not code_path.exists(): return
d_exists(t) ==
    LET a == self[t] IN
    /\ pc[t] = "d_exists"
    /\ IF parentDir[Dir(a)]
       THEN /\ pc' = [pc EXCEPT ![t] = "d_scandir"]
            /\ UNCHANGED <<result, obs>>
       ELSE EvictEnd(t, FALSE)
    /\ UNCHANGED <<cacheVars, op, self, todo, downloads, unzips, evicted,
                   failed, prepared, ncalls>>
    /\ UNCHANGED <<fnVars, extVars>>

\* shutil.rmtree(code_path) lists the tree; it raises when the directory is gone
\* (a concurrent eviction removed it)
d_scandir(t) ==
    LET a == self[t] IN
    /\ pc[t] = "d_scandir"
    /\ IF ~parentDir[Dir(a)]
       THEN /\ EvictEnd(t, TRUE)
            /\ UNCHANGED todo
       ELSE /\ todo' = [todo EXCEPT ![t] = files[Dir(a)]]
            /\ pc' = [pc EXCEPT ![t] =
                         IF ~codeDir[Dir(a)] THEN "d_rmdir_parent"
                         ELSE IF files[Dir(a)] = {} THEN "d_rmdir" ELSE "d_unlink"]
            /\ UNCHANGED <<result, obs>>
    /\ UNCHANGED <<cacheVars, op, self, downloads, unzips, evicted, failed,
                   prepared, ncalls>>
    /\ UNCHANGED <<fnVars, extVars>>

\* shutil.rmtree raises an OSError of the environment (permissions, busy file)
d_oserror(t) ==
    /\ pc[t] = "d_scandir"
    /\ EvictEnd(t, TRUE)
    /\ UNCHANGED <<cacheVars, op, self, todo, downloads, unzips, evicted,
                   failed, prepared, ncalls>>
    /\ UNCHANGED <<fnVars, extVars>>

\* shutil.rmtree unlinks one listed entry; it raises when the entry is gone
d_unlink(t) ==
    LET a == self[t] IN
    /\ pc[t] = "d_unlink"
    /\ \E f \in todo[t] :
          IF f \in files[Dir(a)]
          THEN /\ files' = [files EXCEPT ![Dir(a)] = @ \ {f}]
               /\ todo' = [todo EXCEPT ![t] = @ \ {f}]
               /\ pc' = [pc EXCEPT ![t] =
                            IF todo[t] = {f} THEN "d_rmdir" ELSE "d_unlink"]
               /\ UNCHANGED <<result, obs>>
          ELSE /\ EvictEnd(t, TRUE)
               /\ UNCHANGED <<files, todo>>
    /\ UNCHANGED <<parentDir, codeDir, remote, disk_lock, op, self, downloads,
                   unzips, evicted, failed, prepared, ncalls>>
    /\ UNCHANGED <<fnVars, extVars>>

\* shutil.rmtree removes the emptied code directory; os.rmdir raises when it is
\* gone or when an unzip wrote an entry into it meanwhile
d_rmdir(t) ==
    LET a == self[t] IN
    /\ pc[t] = "d_rmdir"
    /\ IF codeDir[Dir(a)] /\ files[Dir(a)] = {}
       THEN /\ codeDir' = [codeDir EXCEPT ![Dir(a)] = FALSE]
            /\ pc' = [pc EXCEPT ![t] = "d_rmdir_parent"]
            /\ UNCHANGED <<result, obs>>
       ELSE /\ EvictEnd(t, TRUE)
            /\ UNCHANGED codeDir
    /\ UNCHANGED <<parentDir, files, remote, disk_lock, op, self, todo,
                   downloads, unzips, evicted, failed, prepared, ncalls>>
    /\ UNCHANGED <<fnVars, extVars>>

\* shutil.rmtree removes the {id} directory itself
d_rmdir_parent(t) ==
    LET a == self[t] IN
    /\ pc[t] = "d_rmdir_parent"
    /\ IF parentDir[Dir(a)] /\ ~codeDir[Dir(a)]
       THEN /\ parentDir' = [parentDir EXCEPT ![Dir(a)] = FALSE]
            /\ EvictEnd(t, FALSE)
       ELSE /\ EvictEnd(t, TRUE)
            /\ UNCHANGED parentDir
    /\ UNCHANGED <<codeDir, files, remote, disk_lock, op, self, todo,
                   downloads, unzips, evicted, failed, prepared, ncalls>>
    /\ UNCHANGED <<fnVars, extVars>>

\* ----------------------------------------------------------- S3Code.destroy
\* the outcomes of s3_client.delete_object: "none" is success
DeleteOutcomes == {"none", "ClientError", "EndpointConnectionError"}

\* faulty variant: the except clause is lost
DeleteCaught_never(e) == FALSE

\* `except ClientError as e:` catches the outcome
DeleteCaught(e) == e = "ClientError"

destroy(t, a) == Evict(t, a, "destroy")

\* s3_client.delete_object(...) after destroy_cached() returned
x_delete(t) ==
    LET a == self[t] IN
    /\ pc[t] = "x_delete"
    /\ \E e \in DeleteOutcomes :
          /\ remote' = [remote EXCEPT ![a] = IF e = "none" THEN FALSE ELSE @]
          /\ result' = [result EXCEPT ![t] =
                           IF e = "none" \/ DeleteCaught(e) THEN "ok" ELSE e]
          /\ obs' = [obs EXCEPT ![t].delErr = e,
                                ![t].localAfter = parentDir[Dir(a)]]
    /\ pc' = [pc EXCEPT ![t] = "idle"]
    /\ UNCHANGED <<fsVars, disk_lock, op, self, todo, downloads, unzips,
                   evicted, failed, prepared, ncalls>>
    /\ UNCHANGED <<fnVars, extVars>>

\* ------------------------------------------- S3Code.generate_presigned_url
generate_presigned_url(t, a) ==
    /\ Call(t, a, "generate_presigned_url", "g_sign")
    /\ url' = [url EXCEPT ![t] = NoUrl]
    /\ UNCHANGED <<cacheVars, downloads, unzips, evicted, failed, prepared, fnVars,
                   s3code, aliasVars, previous>>

\* faulty variant: the URL is generated under the object's _disk_lock
g_sign_locked(t) ==
    LET a == self[t] IN
    /\ pc[t] = "g_sign"
    /\ LockFree(a, t)
    /\ url' = [url EXCEPT ![t] =
                  [Bucket |-> s3code[a].s3_bucket, Key |-> s3code[a].s3_key,
                   VersionId |-> s3code[a].s3_object_version]]
    /\ obs' = [obs EXCEPT ![t].seen = "unlocked"]
    /\ result' = [result EXCEPT ![t] = "ok"]
    /\ pc' = [pc EXCEPT ![t] = "idle"]
    /\ UNCHANGED <<cacheVars, op, self, todo, downloads, unzips, evicted, failed,
                   prepared, ncalls, fnVars, s3code, aliasVars, previous>>

\* params = {"Bucket": ..., "Key": ...}, plus "VersionId" when s3_object_version
\* is set; the client signs them locally and the URL is returned. The thread
\* notes whether some thread held the object's _disk_lock at that moment.
g_sign(t) ==
    LET a == self[t] IN
    /\ pc[t] = "g_sign"
    /\ url' = [url EXCEPT ![t] =
                  [Bucket |-> s3code[a].s3_bucket, Key |-> s3code[a].s3_key,
                   VersionId |-> IF s3code[a].s3_object_version # <<>>
                                 THEN s3code[a].s3_object_version ELSE <<>>]]
    /\ obs' = [obs EXCEPT ![t].seen = IF disk_lock[a] = {} THEN "unlocked"
                                      ELSE "locked"]
    /\ result' = [result EXCEPT ![t] = "ok"]
    /\ pc' = [pc EXCEPT ![t] = "idle"]
    /\ UNCHANGED <<cacheVars, op, self, todo, downloads, unzips, evicted, failed,
                   prepared, ncalls, fnVars, s3code, aliasVars, previous>>

\* ------------------------------------------------------ the cache, threaded
CacheNext ==
    \/ \E t \in Threads, a \in CacheArtifacts : prepare_for_execution(t, a)
    \/ \E t \in Threads : p_acquire(t)
    \/ \E t \in Threads : p_exists(t)
    \/ \E t \in Threads : p_mkdir(t)
    \/ \E t \in Threads : p_download_ok(t)
    \/ \E t \in Threads : p_download_fail(t)
    \/ \E t \in Threads : p_unzip_entry(t)
    \/ \E t \in Threads : p_unzip_fail(t)
    \/ \E t \in Threads, a \in CacheArtifacts : destroy_cached(t, a)
    \/ \E t \in Threads : d_exists(t)
    \/ \E t \in Threads : d_scandir(t)
    \/ \E t \in Threads : d_oserror(t)
    \/ \E t \in Threads : d_unlink(t)
    \/ \E t \in Threads : d_rmdir(t)
    \/ \E t \in Threads : d_rmdir_parent(t)
    \/ \E t \in Threads, a \in CacheArtifacts : destroy(t, a)
    \/ \E t \in Threads : x_delete(t)

Spec == Init /\ [][CacheNext]_vars

\* ======================================================= Function aggregate
\* faulty variant: Function.lock excludes nobody
FnLockFree_open(t) == TRUE

\* faulty variant: the Function and its S3Code objects share one lock
FnLockFree_shared(t) ==
    /\ lock \subseteq {t}
    /\ \A a \in Artifacts : disk_lock[a] \subseteq {t}

\* Function.lock, a threading.RLock, can be acquired by t
FnLockFree(t) == lock \subseteq {t}

\* the versions map without the entry of q
Without(vs, q) == [x \in DOMAIN vs \ {q} |-> vs[x]]

\* faulty variant: the sweep finds no reference
Referenced_never(vs, a) == FALSE

\* some version of vs references the S3Code object a
Referenced(vs, a) == \E q \in DOMAIN vs : vs[q].code = a

\* a Function operation leaves the disk, the store and the counters alone
FnFrame ==
    UNCHANGED <<cacheVars, downloads, unzips, evicted, failed, prepared, extVars>>

\* the creation of the function stores the $LATEST version
CreateLatest(a) ==
    /\ "$LATEST" \notin DOMAIN versions
    /\ versions' = ("$LATEST" :> FunctionVersion("$LATEST", a)) @@ versions
    /\ UNCHANGED <<next_version, lock, qualifier, ret, published>>
    /\ UNCHANGED <<extVars, cacheVars, threadVars, histVars>>

\* PublishVersion(config), config.code = a
PublishVersion(t, a) ==
    /\ Call(t, a, "PublishVersion", "pv_lock")
    /\ FnFrame
    /\ UNCHANGED fnVars

pv_acquire(t) ==
    /\ pc[t] = "pv_lock"
    /\ FnLockFree(t)
    /\ lock' = {t}
    /\ pc' = [pc EXCEPT ![t] = "pv_assign"]
    /\ UNCHANGED <<versions, next_version, qualifier, ret, published>>
    /\ UNCHANGED <<extVars, cacheVars, op, self, todo, result, histVars>>

\* qualifier = stringified next_version
pv_assign(t) ==
    /\ pc[t] = "pv_assign"
    /\ qualifier' = [qualifier EXCEPT ![t] = ToString(next_version)]
    /\ published' = Append(published, ToString(next_version))
    /\ pc' = [pc EXCEPT ![t] = "pv_increment"]
    /\ UNCHANGED <<versions, next_version, lock, ret>>
    /\ UNCHANGED <<extVars, cacheVars, op, self, todo, result, histVars>>

\* the counter is incremented
pv_increment(t) ==
    /\ pc[t] = "pv_increment"
    /\ next_version' = next_version + 1
    /\ pc' = [pc EXCEPT ![t] = "pv_insert"]
    /\ UNCHANGED <<versions, lock, qualifier, ret, published>>
    /\ UNCHANGED <<extVars, cacheVars, op, self, todo, result, histVars>>

\* the version is inserted (its qualifier is what the caller gets), the lock released
pv_insert(t) ==
    LET v == FunctionVersion(qualifier[t], self[t]) IN
    /\ pc[t] = "pv_insert"
    /\ versions' = (qualifier[t] :> v) @@ versions
    /\ result' = [result EXCEPT ![t] = "ok"]
    /\ lock' = {}
    /\ pc' = [pc EXCEPT ![t] = "idle"]
    /\ UNCHANGED <<next_version, qualifier, ret, published>>
    /\ UNCHANGED <<extVars, cacheVars, op, self, todo, histVars>>

\* ------------------------------------------------------------ Function.latest
latest(t) ==
    /\ Call(t, self[t], "latest", "l_lookup")
    /\ FnFrame
    /\ UNCHANGED <<versions, next_version, lock, qualifier, published>>
    /\ ret' = [ret EXCEPT ![t] = NoVersion]

\* faulty variant: the lookup falls back to a default instead of raising
l_lookup_default(t) ==
    /\ pc[t] = "l_lookup"
    /\ ret' = [ret EXCEPT ![t] =
                  IF "$LATEST" \in DOMAIN versions THEN versions["$LATEST"]
                  ELSE NoVersion]
    /\ result' = [result EXCEPT ![t] = "ok"]
    /\ pc' = [pc EXCEPT ![t] = "idle"]
    /\ UNCHANGED <<versions, next_version, lock, qualifier, published>>
    /\ UNCHANGED <<extVars, cacheVars, op, self, todo, histVars>>

\* return self.versions["$LATEST"]: a dict lookup, KeyError when the key is missing
l_lookup(t) ==
    /\ pc[t] = "l_lookup"
    /\ IF "$LATEST" \in DOMAIN versions
       THEN /\ ret' = [ret EXCEPT ![t] = versions["$LATEST"]]
            /\ result' = [result EXCEPT ![t] = "ok"]
       ELSE /\ result' = [result EXCEPT ![t] = "KeyError"]
            /\ UNCHANGED ret
    /\ pc' = [pc EXCEPT ![t] = "idle"]
    /\ UNCHANGED <<versions, next_version, lock, qualifier, published>>
    /\ UNCHANGED <<extVars, cacheVars, op, self, todo, histVars>>

\* ------------------------------------------------------------ DestroyVersion
\* DestroyVersion(q) on a published version
DestroyVersion(t, q) ==
    /\ q \in DOMAIN versions \ {"$LATEST"}
    /\ Call(t, self[t], "DestroyVersion", "dv_lock")
    /\ qualifier' = [qualifier EXCEPT ![t] = q]
    /\ FnFrame
    /\ UNCHANGED <<versions, next_version, lock, ret, published>>

dv_acquire(t) ==
    /\ pc[t] = "dv_lock"
    /\ FnLockFree(t)
    /\ lock' = {t}
    /\ pc' = [pc EXCEPT ![t] = "dv_remove"]
    /\ UNCHANGED <<versions, next_version, qualifier, ret, published>>
    /\ UNCHANGED <<extVars, cacheVars, op, self, todo, result, histVars>>

\* the version is gone already (a concurrent DestroyVersion removed it)
dv_missing(t) ==
    /\ pc[t] = "dv_remove"
    /\ qualifier[t] \notin DOMAIN versions
    /\ result' = [result EXCEPT ![t] = "NotFoundError"]
    /\ lock' = {}
    /\ pc' = [pc EXCEPT ![t] = "idle"]
    /\ UNCHANGED <<versions, next_version, qualifier, ret, published>>
    /\ UNCHANGED <<extVars, cacheVars, op, self, todo, histVars>>

\* the version is removed; another version still references its code
dv_remove_shared(t) ==
    LET q == qualifier[t]
        rest == Without(versions, q)
    IN
    /\ pc[t] = "dv_remove"
    /\ q \in DOMAIN versions
    /\ Referenced(rest, versions[q].code)
    /\ versions' = rest
    /\ result' = [result EXCEPT ![t] = "ok"]
    /\ lock' = {}
    /\ pc' = [pc EXCEPT ![t] = "idle"]
    /\ UNCHANGED <<next_version, qualifier, ret, published>>
    /\ UNCHANGED <<extVars, cacheVars, op, self, todo, histVars>>

\* the version is removed; no version references its code any more, and the
\* thread goes on into S3Code.destroy() of that code
dv_remove_last(t) ==
    LET q == qualifier[t]
        rest == Without(versions, q)
        a == versions[q].code
    IN
    /\ pc[t] = "dv_remove"
    /\ q \in DOMAIN versions
    /\ ~Referenced(rest, a)
    /\ versions' = rest
    /\ lock' = {}
    /\ Enter(t, a, "destroy", "d_exists")
    /\ evicted' = [evicted EXCEPT ![a] = TRUE]
    /\ prepared' = [prepared EXCEPT ![a] = FALSE]
    /\ UNCHANGED <<next_version, qualifier, ret, published>>
    /\ UNCHANGED <<extVars, cacheVars, downloads, unzips, failed, ncalls>>

\* ------------------------------------------- the Function and its code, threaded
FnNext ==
    \/ \E a \in CacheArtifacts : CreateLatest(a)
    \/ \E t \in Threads, a \in Artifacts : PublishVersion(t, a)
    \/ \E t \in Threads : pv_acquire(t)
    \/ \E t \in Threads : pv_assign(t)
    \/ \E t \in Threads : pv_increment(t)
    \/ \E t \in Threads : pv_insert(t)
    \/ \E t \in Threads : latest(t)
    \/ \E t \in Threads : l_lookup(t)
    \/ \E t \in Threads, q \in DOMAIN versions : DestroyVersion(t, q)
    \/ \E t \in Threads : dv_acquire(t)
    \/ \E t \in Threads : dv_missing(t)
    \/ \E t \in Threads : dv_remove_shared(t)
    \/ \E t \in Threads : dv_remove_last(t)
    \/ \E t \in Threads, a \in CacheArtifacts : prepare_for_execution(t, a)
    \/ \E t \in Threads : p_acquire(t)
    \/ \E t \in Threads : p_exists(t)
    \/ \E t \in Threads : p_mkdir(t)
    \/ \E t \in Threads : p_download_ok(t)
    \/ \E t \in Threads : p_download_fail(t)
    \/ \E t \in Threads : p_unzip_entry(t)
    \/ \E t \in Threads : p_unzip_fail(t)
    \/ \E t \in Threads : d_exists(t)
    \/ \E t \in Threads : d_scandir(t)
    \/ \E t \in Threads : d_oserror(t)
    \/ \E t \in Threads : d_unlink(t)
    \/ \E t \in Threads : d_rmdir(t)
    \/ \E t \in Threads : d_rmdir_parent(t)
    \/ \E t \in Threads : x_delete(t)

SpecFn == Init /\ [][FnNext]_vars

\* --------------------------------------------------- VersionAlias and routing
\* the alias names, the version qualifiers and the weights a caller gives, all
\* of them well-formed; weights and samples are counted in hundredths: a weight
\* of 1.0 is 100, and a sample, drawn from [0, 1), is one of 0..99
AliasNames == {"live"}
Qualifiers == {"$LATEST", "1"}
Weights == {0, 50, 100}
Samples == {0, 49, 50, 99}

\* the values long_uid can return
Uids == {ToString(i) : i \in 1..MaxCalls}

\* faulty variant: the id is a class-level default, computed once and shared
long_uid_once(used) == CHOOSE u \in Uids : TRUE

\* revision_id: str = field(init=False, default_factory=long_uid): every
\* VersionAlias constructed gets the value of a new long_uid() call, a uuid4
\* string, which repeats no value generated before; the ids are opaque, so
\* which of the unused values comes is immaterial
long_uid(used) == CHOOSE u \in Uids : u \notin used

\* the secondary version of an alias, "" when it has none
Secondary(alias) ==
    LET vw == alias.routing_configuration.version_weights IN
    IF DOMAIN vw = {} THEN "" ELSE CHOOSE q \in DOMAIN vw : TRUE

\* an alias operation leaves the versions, the counter and the cache alone
AliasFrame ==
    UNCHANGED <<cacheVars, downloads, unzips, evicted, failed, prepared,
                versions, next_version, qualifier, ret, published, s3code, url,
                previous>>

\* UpsertAlias(name, target_version, optional secondary, optional weight)
UpsertAlias(t, name, target, secondary, weight) ==
    /\ Call(t, self[t], "UpsertAlias", "ua_lock")
    /\ request' = [request EXCEPT ![t] =
                      [name |-> name, function_version |-> target,
                       secondary |-> secondary, weight |-> weight, sample |-> 0]]
    /\ AliasFrame
    /\ UNCHANGED <<lock, aliases, issued, routed>>

ua_acquire(t) ==
    /\ pc[t] = "ua_lock"
    /\ FnLockFree(t)
    /\ lock' = {t}
    /\ pc' = [pc EXCEPT ![t] = "ua_validate"]
    /\ AliasFrame
    /\ UNCHANGED <<op, self, todo, result, obs, ncalls, aliasVars>>

\* faulty variant: only the primary target is validated
ValidAlias_primary(r, vs) ==
    /\ r.function_version \in DOMAIN vs
    /\ r.weight >= 0 /\ r.weight <= 100

\* both target qualifiers exist in versions, and the weight is in [0, 1]
ValidAlias(r, vs) ==
    /\ r.function_version \in DOMAIN vs
    /\ r.secondary # "" => r.secondary \in DOMAIN vs
    /\ r.weight >= 0 /\ r.weight <= 100

\* a referenced version does not exist, or the weight is malformed: the call
\* fails and nothing is stored
ua_invalid(t) ==
    /\ pc[t] = "ua_validate"
    /\ ~ValidAlias(request[t], versions)
    /\ result' = [result EXCEPT ![t] = "ValidationError"]
    /\ request' = [request EXCEPT ![t] = NoRequest]
    /\ lock' = {}
    /\ pc' = [pc EXCEPT ![t] = "idle"]
    /\ AliasFrame
    /\ UNCHANGED <<op, self, todo, obs, ncalls, aliases, issued, routed>>

\* a new VersionAlias, with the revision id its construction generates, replaces
\* the alias of the same name
ua_store(t) ==
    LET r == request[t]
        routing == IF r.secondary = "" THEN NoRouting
                   ELSE AliasRoutingConfig(r.secondary, r.weight)
    IN
    /\ pc[t] = "ua_validate"
    /\ ValidAlias(r, versions)
    /\ LET u == long_uid(issued) IN
          /\ aliases' = (r.name :> VersionAlias(r.function_version, r.name, routing, u))
                            @@ aliases
          /\ issued' = issued \cup {u}
    /\ result' = [result EXCEPT ![t] = "ok"]
    /\ lock' = {}
    /\ pc' = [pc EXCEPT ![t] = "idle"]
    /\ request' = [request EXCEPT ![t] = NoRequest]
    /\ AliasFrame
    /\ UNCHANGED <<op, self, todo, obs, ncalls, routed>>

\* DeleteAlias(name)
DeleteAlias(t, name) ==
    /\ Call(t, self[t], "DeleteAlias", "da_lock")
    /\ request' = [request EXCEPT ![t] = [NoRequest EXCEPT !.name = name]]
    /\ AliasFrame
    /\ UNCHANGED <<lock, aliases, issued, routed>>

da_acquire(t) ==
    /\ pc[t] = "da_lock"
    /\ FnLockFree(t)
    /\ lock' = {t}
    /\ pc' = [pc EXCEPT ![t] = "da_remove"]
    /\ AliasFrame
    /\ UNCHANGED <<op, self, todo, result, obs, ncalls, aliasVars>>

\* the alias is removed; a missing alias is an error
da_remove(t) ==
    LET name == request[t].name IN
    /\ pc[t] = "da_remove"
    /\ IF name \in DOMAIN aliases
       THEN /\ aliases' = [n \in DOMAIN aliases \ {name} |-> aliases[n]]
            /\ result' = [result EXCEPT ![t] = "ok"]
       ELSE /\ result' = [result EXCEPT ![t] = "NotFoundError"]
            /\ UNCHANGED aliases
    /\ lock' = {}
    /\ pc' = [pc EXCEPT ![t] = "idle"]
    /\ request' = [request EXCEPT ![t] = NoRequest]
    /\ AliasFrame
    /\ UNCHANGED <<op, self, todo, obs, ncalls, issued, routed>>

\* faulty variant: a sample equal to the weight still goes to the secondary
Route_inclusive(alias, sample) ==
    LET vw == alias.routing_configuration.version_weights IN
    IF DOMAIN vw = {} THEN alias.function_version
    ELSE IF sample <= vw[Secondary(alias)] THEN Secondary(alias)
    ELSE alias.function_version

\* the routing decision: without a secondary version the primary; otherwise the
\* secondary when the sample, drawn from [0, 1), is below its weight
Route(alias, sample) ==
    LET vw == alias.routing_configuration.version_weights IN
    IF DOMAIN vw = {} THEN alias.function_version
    ELSE IF sample < vw[Secondary(alias)] THEN Secondary(alias)
    ELSE alias.function_version

\* ResolveAlias(name, random_source): the source gives the one sample drawn
ResolveAlias(t, name, sample) ==
    /\ Call(t, self[t], "ResolveAlias", "ra_resolve")
    /\ request' = [request EXCEPT ![t] =
                      [NoRequest EXCEPT !.name = name, !.sample = sample]]
    /\ routed' = [routed EXCEPT ![t] = NoRoute]
    /\ AliasFrame
    /\ UNCHANGED <<lock, aliases, issued>>

ra_resolve(t) ==
    LET r == request[t] IN
    /\ pc[t] = "ra_resolve"
    /\ IF r.name \in DOMAIN aliases
       THEN /\ routed' = [routed EXCEPT ![t] =
                             [alias |-> aliases[r.name], sample |-> r.sample,
                              qualifier |-> Route(aliases[r.name], r.sample)]]
            /\ result' = [result EXCEPT ![t] = "ok"]
       ELSE /\ result' = [result EXCEPT ![t] = "NotFoundError"]
            /\ UNCHANGED routed
    /\ pc' = [pc EXCEPT ![t] = "idle"]
    /\ request' = [request EXCEPT ![t] = NoRequest]
    /\ AliasFrame
    /\ UNCHANGED <<op, self, todo, obs, ncalls, lock, aliases, issued>>

\* ------------------------------------------------- the aliases, threaded
AliasNext ==
    \/ \E a \in CacheArtifacts : CreateLatest(a)
    \/ \E t \in Threads, a \in CacheArtifacts : PublishVersion(t, a)
    \/ \E t \in Threads : pv_acquire(t)
    \/ \E t \in Threads : pv_assign(t)
    \/ \E t \in Threads : pv_increment(t)
    \/ \E t \in Threads : pv_insert(t)
    \/ \E t \in Threads, name \in AliasNames, target \in Qualifiers :
          \/ UpsertAlias(t, name, target, "", 0)
          \/ \E secondary \in Qualifiers \ {target}, weight \in Weights :
                UpsertAlias(t, name, target, secondary, weight)
    \/ \E t \in Threads : ua_acquire(t)
    \/ \E t \in Threads : ua_invalid(t)
    \/ \E t \in Threads : ua_store(t)
    \/ \E t \in Threads, name \in AliasNames : DeleteAlias(t, name)
    \/ \E t \in Threads : da_acquire(t)
    \/ \E t \in Threads : da_remove(t)
    \/ \E t \in Threads, name \in AliasNames, sample \in Samples :
          ResolveAlias(t, name, sample)
    \/ \E t \in Threads : ra_resolve(t)

SpecAlias == Init /\ [][AliasNext]_vars

\* ------------------------------------- materialization and URLs, threaded
UrlNext ==
    \/ \E t \in Threads, a \in CacheArtifacts : prepare_for_execution(t, a)
    \/ \E t \in Threads : p_acquire(t)
    \/ \E t \in Threads : p_exists(t)
    \/ \E t \in Threads : p_mkdir(t)
    \/ \E t \in Threads : p_download_ok(t)
    \/ \E t \in Threads : p_download_fail(t)
    \/ \E t \in Threads : p_unzip_entry(t)
    \/ \E t \in Threads : p_unzip_fail(t)
    \/ \E t \in Threads, a \in Artifacts : generate_presigned_url(t, a)
    \/ \E t \in Threads : g_sign(t)

SpecUrl == Init /\ [][UrlNext]_vars

\* ------------------------------------------ materialization, scheduled fairly
LiveNext ==
    \/ \E t \in Threads, a \in CacheArtifacts : prepare_for_execution(t, a)
    \/ \E t \in Threads : p_acquire(t)
    \/ \E t \in Threads : p_exists(t)
    \/ \E t \in Threads : p_mkdir(t)
    \/ \E t \in Threads : p_download_ok(t)
    \/ \E t \in Threads : p_download_fail(t)
    \/ \E t \in Threads : p_unzip_entry(t)
    \/ \E t \in Threads : p_unzip_fail(t)

\* the next step of thread t inside prepare_for_execution
PrepareNext(t) ==
    \/ p_acquire(t)
    \/ p_exists(t)
    \/ p_mkdir(t)
    \/ p_download_ok(t)
    \/ p_download_fail(t)
    \/ p_unzip_entry(t)
    \/ p_unzip_fail(t)

\* a thread that can go on is scheduled in the end; a download and an unzip
\* come to an end, one way or the other; a thread waiting for a lock that
\* stays free gets it
SpecLive ==
    Init /\ [][LiveNext]_vars /\ \A t \in Threads : WF_vars(PrepareNext(t))

\* ------------------------------------------------- one caller, sequential
\* no call is running
Quiet == \A u \in Threads : pc[u] = "idle"

\* the thread of the latest call
Caller == previous.caller

\* thread t makes the next call: what the latest call was and whether it hit a
\* filesystem error is remembered
Remember(t) ==
    previous' = [caller |-> t, op |-> op[Caller], fsErr |-> obs[Caller].fsErr]

seq_prepare_for_execution(t, a) ==
    /\ Quiet
    /\ Call(t, a, "prepare_for_execution", "p_lock")
    /\ Remember(t)
    /\ UNCHANGED <<cacheVars, downloads, unzips, evicted, failed, prepared, fnVars,
                   s3code, url, aliasVars>>

seq_destroy_cached(t, a) ==
    /\ Quiet
    /\ Call(t, a, "destroy_cached", "d_exists")
    /\ Remember(t)
    /\ evicted' = [evicted EXCEPT ![a] = TRUE]
    /\ prepared' = [prepared EXCEPT ![a] = FALSE]
    /\ UNCHANGED <<cacheVars, downloads, unzips, failed, fnVars, s3code, url,
                   aliasVars>>

\* the downloads and the unzips succeed
SeqNext ==
    \/ \E t \in Threads, a \in CacheArtifacts : seq_prepare_for_execution(t, a)
    \/ \E t \in Threads : p_acquire(t)
    \/ \E t \in Threads : p_exists(t)
    \/ \E t \in Threads : p_mkdir(t)
    \/ \E t \in Threads : p_download_ok(t)
    \/ \E t \in Threads : p_unzip_entry(t)
    \/ \E t \in Threads, a \in CacheArtifacts : seq_destroy_cached(t, a)
    \/ \E t \in Threads : d_exists(t)
    \/ \E t \in Threads : d_scandir(t)
    \/ \E t \in Threads : d_oserror(t)
    \/ \E t \in Threads : d_unlink(t)
    \/ \E t \in Threads : d_rmdir(t)
    \/ \E t \in Threads : d_rmdir_parent(t)

SpecSeq == Init /\ [][SeqNext]_vars

\* ------------------------------------------- two S3Code objects, threaded
\* the S3Code objects that can be drawn, in a fixed order: two in one bucket,
\* two of one id, and two whose bucket and id read the same when run together.
\* S3 bucket names hold no "/", and neither do the ids the objects are created
\* with, so none is drawn with one
DrawnCodes ==
    <<[id |-> <<"a">>, s3_bucket |-> <<"a">>, s3_key |-> <<"a">>,
       s3_object_version |-> <<>>],
      [id |-> <<"a", "a">>, s3_bucket |-> <<"a">>, s3_key |-> <<"a", "a">>,
       s3_object_version |-> <<>>],
      [id |-> <<"a">>, s3_bucket |-> <<"a", "a">>, s3_key |-> <<"a">>,
       s3_object_version |-> <<>>]>>

\* the two objects differ in bucket or id
InitFrame ==
    /\ \E i, j \in 1..Len(DrawnCodes) :
          /\ i < j
          /\ s3code = [a \in Artifacts |->
                          IF a = "a1" THEN DrawnCodes[i] ELSE DrawnCodes[j]]
    /\ InitRest

\* the control plane, which destroys, is the first thread; the others are the
\* execution engine's, which materialize
ControlPlane == CHOOSE t \in Threads : \A u \in Threads : t <= u
Engine == Threads \ {ControlPlane}

FrameNext ==
    \/ \E t \in Engine, a \in Artifacts : prepare_for_execution(t, a)
    \/ \E t \in Threads : p_acquire(t)
    \/ \E t \in Threads : p_exists(t)
    \/ \E t \in Threads : p_mkdir(t)
    \/ \E t \in Threads : p_download_ok(t)
    \/ \E t \in Threads : p_unzip_entry(t)
    \/ \E a \in Artifacts : destroy_cached(ControlPlane, a)
    \/ \E a \in Artifacts : destroy(ControlPlane, a)
    \/ \E t \in Threads : d_exists(t)
    \/ \E t \in Threads : d_scandir(t)
    \/ \E t \in Threads : d_unlink(t)
    \/ \E t \in Threads : d_rmdir(t)
    \/ \E t \in Threads : d_rmdir_parent(t)
    \/ \E t \in Threads : x_delete(t)

SpecFrame == InitFrame /\ [][FrameNext]_vars

\* ================================================================ properties
PrepareDone(t, a) ==
    op[t] = "prepare_for_execution" /\ self[t] = a /\ pc[t] = "idle"

\* C1: single flight. While no eviction was ever called on an artifact, its
\* callers of prepare_for_execution start at most one download and complete at
\* most one unzip in total, whatever their number and interleaving; once a caller
\* has returned, exactly one download has run, and every caller that did not
\* download returned normally.
SingleFlight ==
    \A a \in Artifacts :
        ~evicted[a] =>
            /\ downloads[a] <= 1
            /\ unzips[a] <= downloads[a]
            /\ Cardinality({t \in Threads :
                   op[t] = "prepare_for_execution" /\ self[t] = a /\ obs[t].dl > 0}) <= 1
            /\ \A t \in Threads :
                   PrepareDone(t, a) =>
                       /\ downloads[a] = 1
                       /\ ~failed[a] => unzips[a] = 1
                       /\ obs[t].dl = 0 => result[t] = "ok"

SingleFlightWitness ==
    \E t, u \in Threads :
        /\ t # u
        /\ PrepareDone(t, "a1") /\ PrepareDone(u, "a1")
        /\ ~evicted["a1"] /\ ~failed["a1"]
        /\ obs[t].dl = 1 /\ obs[u].dl = 0
        /\ result[t] = "ok" /\ result[u] = "ok"
        /\ downloads["a1"] = 1 /\ unzips["a1"] = 1

\* C2: atomic materialization (the claim's second sentence). With no eviction
\* ever called on the artifact, a prepare_for_execution that returns normally
\* leaves or finds the complete unzipped archive: a failed download or unzip
\* leaves behind no directory that a later call accepts.
AtomicMaterialization ==
    \A a \in Artifacts : \A t \in Threads :
        (~evicted[a] /\ PrepareDone(t, a) /\ result[t] = "ok")
            => obs[t].seen = "complete"

\* C3: eviction does not corrupt a materialization. With no download or unzip
\* ever failing on the artifact, a prepare_for_execution that returns normally
\* (after unzipping, or on finding the directory present) leaves or finds the
\* complete content, under every interleaving with destroy_cached and destroy.
EvictionDoesNotCorrupt ==
    \A a \in Artifacts : \A t \in Threads :
        (~failed[a] /\ PrepareDone(t, a) /\ result[t] = "ok")
            => obs[t].seen = "complete"

\* C4: idempotence. From the return of a prepare_for_execution until the next
\* call of destroy_cached or destroy, no caller gets past the presence check (no
\* mkdir, download or unzip is in progress), no download is counted and the
\* local directory does not change.
Idempotent ==
    /\ [](\A a \in Artifacts : \A t \in Threads :
             (prepared[a] /\ self[t] = a)
                 => pc[t] \notin {"p_mkdir", "p_download", "p_unzip"})
    /\ [][\A a \in Artifacts :
             (prepared[a] /\ prepared'[a]) =>
                 /\ downloads'[a] = downloads[a]
                 /\ parentDir'[Dir(a)] = parentDir[Dir(a)]
                 /\ codeDir'[Dir(a)] = codeDir[Dir(a)]
                 /\ files'[Dir(a)] = files[Dir(a)]]_vars

IdempotentWitness ==
    \E t \in Threads :
        /\ PrepareDone(t, "a1") /\ prepared["a1"]
        /\ result[t] = "ok" /\ obs[t].dl = 0 /\ obs[t].seen = "complete"
        /\ downloads["a1"] = 1 /\ unzips["a1"] = 1

DestroyDone(t) == op[t] = "destroy" /\ pc[t] = "idle"

EvictNeverRaises ==
    [][\A t \in Threads :
          (pc[t] \in EvictPcs /\ pc'[t] \notin EvictPcs) =>
              /\ op[t] = "destroy_cached" => (pc'[t] = "idle" /\ result'[t] = "ok")
              /\ op[t] = "destroy" => (pc'[t] = "x_delete" /\ result'[t] = "none")
              /\ ~obs'[t].fsErr => ~parentDir'[Dir(self[t])]
              /\ pc[t] = "d_exists" => (~parentDir[Dir(self[t])] /\ fsVars' = fsVars)]_vars

EvictNeverRaisesWitness ==
    \E t \in Threads :
        /\ op[t] = "destroy_cached" /\ pc[t] = "idle"
        /\ result[t] = "ok" /\ obs[t].fsErr /\ parentDir[Dir(self[t])]

\* C7 (as claimed): a download failure reaches the caller as ArtifactUnavailable,
\* within the call, after exactly one download attempt.
DownloadFailureIsArtifactUnavailable ==
    \A t \in Threads :
        (op[t] = "prepare_for_execution" /\ obs[t].dlFailed) =>
            /\ pc[t] = "idle"
            /\ result[t] = "ArtifactUnavailable"
            /\ obs[t].dl = 1

\* C7 (amended): a download failure reaches the caller of that call as the
\* exception the S3 download raised (a botocore ClientError, or a connection
\* error), unwrapped: the failing step ends the call and releases the lock, and
\* a call attempts the download at most once.
DownloadFailurePropagates ==
    \A t \in Threads :
        /\ obs[t].dl <= 1
        /\ (op[t] = "prepare_for_execution" /\ obs[t].dlFailed) =>
              /\ pc[t] = "idle"
              /\ result[t] \in DownloadErrors
              /\ obs[t].dl = 1
              /\ disk_lock[self[t]] # {t}

DownloadFailurePropagatesWitness ==
    \E t \in Threads :
        /\ PrepareDone(t, "a1") /\ obs[t].dlFailed
        /\ result[t] = "ClientError" /\ ~remote["a1"]
PublishPast(t) ==
    op[t] = "PublishVersion" /\ pc[t] \in {"pv_increment", "pv_insert", "idle"}

\* C8: PublishVersion hands out "1", "2", ... in the order its callers hold
\* Function.lock: the i-th qualifier handed out is the string of i (so the
\* qualifiers are pairwise distinct, increasing, without gaps, and never
\* "$LATEST"), two callers never hold the same qualifier, and with N handed out
\* and no increment pending next_version is N+1.
PublishQualifiers ==
    /\ \A i \in 1..Len(published) : published[i] = ToString(i)
    /\ next_version =
           Len(published) + (IF \E t \in Threads : pc[t] = "pv_increment" THEN 0 ELSE 1)
    /\ \A t \in Threads :
           PublishPast(t) =>
               /\ qualifier[t] # "$LATEST"
               /\ \E i \in 1..Len(published) : published[i] = qualifier[t]
               /\ \A u \in Threads \ {t} : PublishPast(u) => qualifier[u] # qualifier[t]
               /\ pc[t] = "idle" => result[t] = "ok"

PublishQualifiersWitness ==
    /\ "$LATEST" \in DOMAIN versions
    /\ Len(published) >= 2
    /\ \A t \in Threads : pc[t] = "idle"
    /\ \E t, u \in Threads :
           t # u /\ PublishPast(t) /\ PublishPast(u) /\ qualifier[t] = "1" /\ qualifier[u] = "2"
    /\ next_version = Len(published) + 1
    /\ \A i \in 1..Len(published) : ToString(i) \in DOMAIN versions

LatestDone(t) == op[t] = "latest" /\ pc[t] = "idle"

\* C9 (as claimed): latest() returns the version stored under "$LATEST" and fails
\* with NotFoundError when the versions map has no such entry.
LatestFailsNotFound ==
    \A t \in Threads :
        LatestDone(t) =>
            \/ result[t] = "ok" /\ ret[t].qualifier = "$LATEST"
            \/ result[t] = "NotFoundError" /\ ret[t] = NoVersion

\* C9 (amended): the step on which latest() ends returns the version stored
\* under "$LATEST" when the versions map has that entry, and raises KeyError (the
\* error of the dict lookup) when it has not.
LatestLookup ==
    [][\A t \in Threads :
          (pc[t] = "l_lookup" /\ pc'[t] = "idle") =>
              IF "$LATEST" \in DOMAIN versions
              THEN result'[t] = "ok" /\ ret'[t] = versions["$LATEST"]
              ELSE result'[t] = "KeyError" /\ ret'[t] = NoVersion]_vars

LatestLookupWitness ==
    \E t \in Threads :
        /\ LatestDone(t)
        /\ result[t] = "KeyError"
        /\ "$LATEST" \notin DOMAIN versions

\* C10: the step of DestroyVersion that removes version q removes exactly that
\* entry; when no remaining version references q's code, the calling thread, and
\* no other, enters destroy() of that code; when a remaining version references
\* it, the call ends there, no thread enters destroy(), and the remote object
\* and the local directories are as they were.
DestroyVersionCascade ==
    [][\A t \in Threads :
          (pc[t] = "dv_remove" /\ pc'[t] # "dv_remove" /\ qualifier[t] \in DOMAIN versions) =>
              LET q == qualifier[t]
                  a == versions[q].code
                  shared == \E r \in DOMAIN versions \ {q} : versions[r].code = a
              IN
              /\ versions' = Without(versions, q)
              /\ shared =>
                    /\ pc'[t] = "idle" /\ op'[t] = "DestroyVersion" /\ result'[t] = "ok"
                    /\ remote' = remote /\ fsVars' = fsVars
                    /\ \A u \in Threads : pc'[u] = pc[u] \/ u = t
              /\ ~shared =>
                    /\ pc'[t] = "d_exists" /\ op'[t] = "destroy" /\ self'[t] = a
                    /\ \A u \in Threads \ {t} : pc'[u] = pc[u] /\ op'[u] = op[u]]_vars

DestroyVersionCascadeWitness ==
    \E t \in Threads :
        /\ DestroyDone(t) /\ result[t] = "ok"
        /\ qualifier[t] \notin DOMAIN versions
        /\ ~Referenced(versions, self[t])
        /\ "$LATEST" \in DOMAIN versions
        /\ ~remote[self[t]]

\* a DestroyVersion of a version that shared its code has ended: the code is
\* still referenced, stored and unzipped
DestroyVersionSharedReached ==
    \E t \in Threads :
        /\ op[t] = "DestroyVersion" /\ pc[t] = "idle" /\ result[t] = "ok"
        /\ qualifier[t] \notin DOMAIN versions
        /\ Referenced(versions, "a1") /\ remote["a1"] /\ files[Dir("a1")] = ArchiveFiles

\* ---------------------------------------------------------------- aliases
\* the request names a target, primary or secondary, that is no key of vs
MissingTarget(r, vs) ==
    \/ r.function_version \notin DOMAIN vs
    \/ r.secondary # "" /\ r.secondary \notin DOMAIN vs

\* C11: an UpsertAlias call whose primary or secondary target qualifier is not a
\* key of the versions map ends with ValidationError and leaves the aliases map
\* as it was, the existing alias of that name and its revision id included.
UpsertAliasRejectsMissingTarget ==
    [][\A t \in Threads :
          (/\ pc[t] = "ua_validate" /\ pc'[t] = "idle"
           /\ MissingTarget(request[t], versions))
          => /\ result'[t] = "ValidationError"
             /\ aliases' = aliases]_vars

\* a call was rejected while an alias was stored; the weights given are all
\* well-formed, so what it was rejected for is a target missing from versions
UpsertAliasRejectsMissingTargetWitness ==
    \E t \in Threads :
        /\ pc[t] = "idle" /\ op[t] = "UpsertAlias"
        /\ result[t] = "ValidationError"
        /\ Qualifiers \ DOMAIN versions # {}
        /\ \E name \in AliasNames : name \in DOMAIN aliases

\* thread t has returned from ResolveAlias with a qualifier
ResolveDone(t) ==
    pc[t] = "idle" /\ op[t] = "ResolveAlias" /\ result[t] = "ok"

\* the weight an alias gives its secondary version, 0 when it has none
SecondaryWeight(alias) ==
    IF Secondary(alias) = "" THEN 0
    ELSE alias.routing_configuration.version_weights[Secondary(alias)]

\* C12: ResolveAlias returns the primary qualifier for every sample when the
\* alias has no secondary version or the secondary's weight is 0.0, the
\* secondary qualifier for every sample when the weight is 1.0, and for one
\* alias and one sample value the same qualifier on every call.
ResolveAliasRouting ==
    \A t \in Threads :
        ResolveDone(t) =>
            LET al == routed[t].alias IN
            /\ (Secondary(al) = "" \/ SecondaryWeight(al) = 0)
                   => routed[t].qualifier = al.function_version
            /\ (Secondary(al) # "" /\ SecondaryWeight(al) = 100)
                   => routed[t].qualifier = Secondary(al)
            /\ \A u \in Threads :
                   (/\ ResolveDone(u) /\ routed[u].alias = al
                    /\ routed[u].sample = routed[t].sample)
                   => routed[u].qualifier = routed[t].qualifier

\* the largest sample was routed by an alias whose secondary has weight 1.0
ResolveAliasRoutingWitness ==
    \E t \in Threads :
        /\ ResolveDone(t)
        /\ Secondary(routed[t].alias) # ""
        /\ SecondaryWeight(routed[t].alias) = 100
        /\ routed[t].sample = 99
        /\ routed[t].qualifier = Secondary(routed[t].alias)
        /\ routed[t].qualifier # routed[t].alias.function_version

\* the smallest sample was routed by an alias whose secondary has weight 0.0
ResolveAliasZeroWeightReached ==
    \E t \in Threads :
        /\ ResolveDone(t)
        /\ Secondary(routed[t].alias) # ""
        /\ SecondaryWeight(routed[t].alias) = 0
        /\ routed[t].sample = 0

\* C13: every alias mutation issues a fresh revision id: the VersionAlias that
\* an UpsertAlias call stores carries a revision_id that differs from the one
\* of the alias it replaces and from every revision id issued before.
FreshRevisionId ==
    [][\A t \in Threads :
          (pc[t] = "ua_validate" /\ pc'[t] = "idle" /\ result'[t] = "ok")
          => LET name == request[t].name IN
             /\ name \in DOMAIN aliases'
             /\ aliases'[name].revision_id \notin issued
             /\ aliases'[name].revision_id \in issued'
             /\ name \in DOMAIN aliases
                   => aliases'[name].revision_id # aliases[name].revision_id]_vars

\* an alias was stored over an earlier alias of its name
FreshRevisionIdWitness ==
    /\ Cardinality(issued) >= 2
    /\ \E name \in DOMAIN aliases :
          /\ aliases[name].revision_id \in issued
          /\ \E u \in issued : u # aliases[name].revision_id

\* ------------------------------------------------------ distinct objects
\* the step is one of thread t inside destroy_cached or destroy, the call included
EvictStep(t) ==
    /\ \/ pc[t] \in EvictPcs \cup {"x_delete"}
       \/ pc[t] = "idle" /\ pc'[t] = "d_exists"
    /\ pc'[t] # pc[t] \/ todo'[t] # todo[t]

\* C14: two S3Code objects that differ in bucket or id never have the same
\* local code directory (nor the same directory above it), and no step of
\* destroy_cached or destroy on one object changes the directory, the files or
\* the stored archive of another.
DistinctObjectsDisjoint ==
    /\ [](\A a, b \in Artifacts :
            (s3code[a].s3_bucket # s3code[b].s3_bucket \/ s3code[a].id # s3code[b].id)
            => /\ Dir(a) # Dir(b)
               /\ parent(Dir(a)) # parent(Dir(b))
               /\ parent(Dir(a)) # Dir(b))
    /\ [][\A t \in Threads :
            EvictStep(t) =>
                \A b \in Artifacts \ {self'[t]} :
                    /\ parentDir'[Dir(b)] = parentDir[Dir(b)]
                    /\ codeDir'[Dir(b)] = codeDir[Dir(b)]
                    /\ files'[Dir(b)] = files[Dir(b)]
                    /\ remote'[b] = remote[b]]_vars

\* destroy_cached removed the materialized directory of one object while the
\* other object's directory stayed complete
DistinctObjectsDisjointWitness ==
    \E t \in Threads, b \in Artifacts :
        /\ pc[t] = "idle" /\ op[t] = "destroy_cached" /\ self[t] # b
        /\ downloads[self[t]] >= 1 /\ ~parentDir[Dir(self[t])]
        /\ s3code[self[t]].s3_bucket = s3code[b].s3_bucket
        /\ prepared[b] /\ codeDir[Dir(b)] /\ files[Dir(b)] = ArchiveFiles

\* ------------------------------------------------------- presigned URLs
\* the step is one of thread t inside generate_presigned_url, the call included
UrlStep(t) ==
    /\ pc[t] = "g_sign" \/ pc'[t] = "g_sign"
    /\ pc'[t] # pc[t]

\* C15: generate_presigned_url leaves the local disk as it is: no step of it
\* creates or removes a directory or file, starts a download or takes or
\* releases the object's _disk_lock; and it is never blocked: its step can be
\* taken in every state, also while another thread materializes the object.
PresignLeavesDiskAlone ==
    /\ [][\A t \in Threads :
            UrlStep(t) => /\ fsVars' = fsVars
                          /\ remote' = remote
                          /\ disk_lock' = disk_lock
                          /\ downloads' = downloads
                          /\ unzips' = unzips]_vars
    /\ [](\A t \in Threads : pc[t] = "g_sign" => ENABLED g_sign(t))

\* a URL was returned for an object whose _disk_lock another thread held, in
\* the middle of writing the object's files
PresignLeavesDiskAloneWitness ==
    \E t, u \in Threads :
        /\ t # u
        /\ pc[t] = "idle" /\ op[t] = "generate_presigned_url" /\ result[t] = "ok"
        /\ obs[t].seen = "locked"
        /\ url[t].Bucket = s3code[self[t]].s3_bucket
        /\ self[u] = self[t] /\ pc[u] = "p_unzip" /\ disk_lock[self[t]] = {u}
        /\ files[Dir(self[t])] # {} /\ files[Dir(self[t])] # ArchiveFiles

\* ------------------------------------------------------------ the two locks
\* positions inside prepare_for_execution
PreparePcs == {"p_lock", "p_exists", "p_mkdir", "p_download", "p_unzip"}

\* the step is one of thread t inside prepare_for_execution, the call included
PrepareStep(t) ==
    /\ pc[t] \in PreparePcs \/ pc'[t] = "p_lock"
    /\ pc'[t] # pc[t] \/ todo'[t] # todo[t]

\* C16: a prepare_for_execution in flight never blocks a structural mutation of
\* the Function: no step of prepare_for_execution takes or releases
\* Function.lock, and each step of PublishVersion depends on Function.lock
\* alone, so it can be taken whoever holds an S3Code._disk_lock and however far
\* a download has come.
MaterializationNeverBlocksMutation ==
    /\ [][\A t \in Threads : PrepareStep(t) => lock' = lock]_vars
    /\ [](\A t \in Threads :
            /\ pc[t] \in PreparePcs => lock # {t}
            /\ (pc[t] = "pv_lock" /\ lock = {}) => ENABLED pv_acquire(t)
            /\ pc[t] = "pv_assign" => ENABLED pv_assign(t)
            /\ pc[t] = "pv_increment" => ENABLED pv_increment(t)
            /\ pc[t] = "pv_insert" => ENABLED pv_insert(t))

\* a thread is about to store the version it publishes while another thread,
\* holding the _disk_lock, is downloading
MaterializationNeverBlocksMutationWitness ==
    \E t, u \in Threads :
        /\ pc[t] = "pv_insert" /\ lock = {t} /\ ENABLED pv_insert(t)
        /\ pc[u] = "p_download" /\ disk_lock[self[u]] = {u}

\* ------------------------------------------------------- sequential runs
\* a run of calls has ended: some call was made and none is running
RunEnded == Quiet /\ ncalls > 0

PrepareTerminates ==
    /\ [](\A t \in Threads, a \in Artifacts : pc[t] = "idle" => disk_lock[a] # {t})
    /\ \A t \in Threads : (pc[t] \in PreparePcs) ~> (pc[t] = "idle")

\* a thread has come through the lock after a caller whose download failed: it
\* found the directory that caller left behind, and returned
PrepareTerminatesWitness ==
    \E t, u \in Threads :
        /\ t # u
        /\ pc[u] = "idle" /\ obs[u].dlFailed /\ result[u] \in DownloadErrors
        /\ pc[t] = "idle" /\ op[t] = "prepare_for_execution" /\ result[t] = "ok"
        /\ obs[t].seen = "partial"
        /\ self[t] = self[u] /\ disk_lock[self[t]] = {}

====
